---- MODULE Spec2Model ----
(***************************************************************************)
(* Model of everylotbot-chicago: the record store (table lots), the        *)
(* selector EveryLot.__init__, EveryLot.mark_as_posted, the image fetch    *)
(* and the orchestrator bot.main.                                          *)
(*                                                                         *)
(* Text values of the id column are sequences of decimal digits, compared  *)
(* the way SQLite compares TEXT (byte by byte, a proper prefix first).     *)
(* The empty sequence stands for a falsy Python value (None or '').        *)
(***************************************************************************)
EXTENDS Naturals, Integers, Sequences, FiniteSets, TLC

VARIABLES lots, db0, cfg, pc, el_id, el_lot, image, post_ids, calls, outcome, err, prev,
          icfg, upstream, ipc, offset, all_rows, requests, rows, records, ierr,
          location, geocode_calls, hist,
          self_lot, geo, camera, mpc,
          ppc, pargs, uploads, creates, praised, preturn

\* state of data_ingest.py
ivars == <<icfg, upstream, ipc, offset, all_rows, requests, rows, records, ierr>>

\* state of a call of a method of an EveryLot object that holds the dict self_lot
lvars == <<self_lot, geo, camera, mpc>>

\* state of a call of a publisher's post
pvars == <<ppc, pargs, uploads, creates, praised, preturn>>

xvars == <<lvars, pvars>>

vars == <<lots, db0, cfg, pc, el_id, el_lot, image, post_ids, calls, outcome, err, prev, ivars,
          location, geocode_calls, hist, xvars>>

(***************************************************************************)
(* Bounded universe                                                        *)
(***************************************************************************)
\* number of distinct ids a store may hold
NumKeys == 2

\* ids in the order they are added to the universe
KeyPool == << <<1, 0>>, <<2>>, <<1>>, <<2, 0>>, <<3>> >>

\* ids of the rows a store may hold: "10" < "2" as TEXT, 2 < 10 as numbers
Keys == {KeyPool[i] : i \in 1..NumKeys}

\* values of START_PIN10 in the environment: unset, or the id '10'
StartPins == {<<>>, <<1, 0>>}

\* an id that no store holds (the tests use 'nonexistent')
MissingKey == <<9>>

\* falsy Python value: None, or the empty string
Falsy == <<>>

\* no row fetched / self.lot is None
NoLot == <<>>

Platforms == {"bluesky", "twitter"}

\* values the posted_<platform> columns hold before any bot run:
\* the column default '0' and the '1' written by the ingestion backfill
InitMarkers == {"0", "1"}

\* number of distinct post identifiers a platform hands out
NumPostIds == 1

\* post identifiers returned by the publishers (tweet.id as a string, resp['uri'])
BlueskyUris == <<"B1", "B2", "B3">>

TweetIds == <<"T1", "T2", "T3">>

PostIdsOf(p) == IF p = "bluesky" THEN {BlueskyUris[i] : i \in 1..NumPostIds}
                ELSE {TweetIds[i] : i \in 1..NumPostIds}

PostIds == PostIdsOf("bluesky") \cup PostIdsOf("twitter")

(***************************************************************************)
(* Record store                                                            *)
(***************************************************************************)
\* address, lat, lon of the row with a given id; the bot never writes them
\* ('10' has an address and coordinates, '2' coordinates only, '1' neither)
\* a string is the sequence of its pieces, the empty string the empty sequence
LotAddress(k) == IF k = <<1, 0>> THEN <<"123 Main St">> ELSE IF k = <<2, 0>> THEN <<"125 Main St">> ELSE <<>>

LotLat(k) == IF k = <<1>> THEN 0 ELSE 41

LotLon(k) == IF k = <<1>> THEN 0 ELSE 0 - 87

LotFloors(k) == IF k = <<1, 0>> THEN 2 ELSE 3

NewRow(k, pt, pb) ==
    [id |-> k, address |-> LotAddress(k), lat |-> LotLat(k), lon |-> LotLon(k),
     posted_twitter |-> pt, posted_bluesky |-> pb, floors |-> LotFloors(k)]

\* every table the bot can be started on: any subset of the ids, any markers
Stores ==
    UNION {[S -> InitMarkers \X InitMarkers] : S \in SUBSET Keys}

MakeStore(m) == [k \in DOMAIN m |-> NewRow(k, m[k][1], m[k][2])]

\* the table as create_local_db leaves the coordinates of a row it could
\* synthesize no address for: lat and lon are the sentinel 0.0
Unlocated(store) ==
    [k \in DOMAIN store |->
        IF store[k].address = <<>> THEN [store[k] EXCEPT !.lat = 0, !.lon = 0] ELSE store[k]]

\* column posted_<platform> of a row
Posted(row, platform) ==
    IF platform = "bluesky" THEN row.posted_bluesky ELSE row.posted_twitter

\* TEXT comparison a < b (BINARY collation)
RECURSIVE TextLess(_, _)
TextLess(a, b) ==
    IF a = <<>> THEN b # <<>>
    ELSE IF b = <<>> THEN FALSE
    ELSE IF a[1] # b[1] THEN a[1] < b[1]
    ELSE TextLess(Tail(a), Tail(b))

\* first row of ORDER BY id ASC LIMIT 1 over a set of ids
FirstAsc(S) ==
    IF S = {} THEN NoLot
    ELSE CHOOSE k \in S : \A j \in S : j = k \/ TextLess(k, j)

\* first row of ORDER BY id DESC LIMIT 1 over a set of ids
FirstDesc(S) ==
    IF S = {} THEN NoLot
    ELSE CHOOSE k \in S : \A j \in S : j = k \/ TextLess(j, k)

(***************************************************************************)
(* everylot.py: the queries                                                *)
(***************************************************************************)
\* variant: WHERE id >= ? in place of WHERE id = ?
SPECIFIC_LOT_QUERY_ge(store, id) ==
    FirstAsc({k \in DOMAIN store : k = id \/ TextLess(id, k)})

\* SELECT * FROM lots WHERE id = ? LIMIT 1
SPECIFIC_LOT_QUERY(store, id) ==
    IF id \in DOMAIN store THEN id ELSE NoLot

\* variant: the condition id > ? is missing
NEXT_LOT_QUERY_nofloor(store, platform, start_id) ==
    FirstAsc({k \in DOMAIN store : Posted(store[k], platform) = "0"})

\* variant: ORDER BY id DESC in place of ORDER BY id ASC
NEXT_LOT_QUERY_desc(store, platform, start_id) ==
    FirstDesc({k \in DOMAIN store :
                  TextLess(start_id, k) /\ Posted(store[k], platform) = "0"})

\* SELECT * FROM lots WHERE id > ? AND posted_<platform> = '0' ORDER BY id ASC LIMIT 1
NEXT_LOT_QUERY(store, platform, start_id) ==
    FirstAsc({k \in DOMAIN store :
                 TextLess(start_id, k) /\ Posted(store[k], platform) = "0"})

\* SELECT id FROM lots WHERE posted_<platform> != '0' ORDER BY id DESC LIMIT 1
LastPostedQuery(store, platform) ==
    FirstDesc({k \in DOMAIN store : Posted(store[k], platform) # "0"})

\* platform = 'bluesky' if ENABLE_BLUESKY is 'true' else 'twitter'
SelectionPlatform(env) ==
    IF env.ENABLE_BLUESKY THEN "bluesky" ELSE "twitter"

\* os.getenv('START_PIN10', '0')
GetenvStartPin10(env) ==
    IF env.START_PIN10 = Falsy THEN <<0>> ELSE env.START_PIN10

\* variant: the START_PIN10 row is fetched before the posted rows are looked at
EveryLotInit_startfirst(store, id_arg, env) ==
    IF id_arg # Falsy
    THEN SPECIFIC_LOT_QUERY(store, id_arg)
    ELSE LET platform == SelectionPlatform(env)
             row == LastPostedQuery(store, platform)
             start_id == GetenvStartPin10(env)
         IN  IF start_id # <<0>> /\ SPECIFIC_LOT_QUERY(store, start_id) # NoLot
             THEN start_id
             ELSE IF row # NoLot
                  THEN NEXT_LOT_QUERY(store, platform, row)
                  ELSE NEXT_LOT_QUERY(store, platform, start_id)

\* EveryLot.__init__: the value of self.lot (the id of the row, or NoLot)
EveryLotInit(store, id_arg, env) ==
    IF id_arg # Falsy
    THEN SPECIFIC_LOT_QUERY(store, id_arg)
    ELSE LET platform == SelectionPlatform(env)
             row == LastPostedQuery(store, platform)
         IN  IF row # NoLot
             THEN NEXT_LOT_QUERY(store, platform, row)
             ELSE LET start_id == GetenvStartPin10(env)
                  IN  IF start_id # <<0>>
                      THEN IF start_id \in DOMAIN store
                              /\ Posted(store[start_id], platform) # "0"
                           THEN NEXT_LOT_QUERY(store, platform, start_id)
                           ELSE IF SPECIFIC_LOT_QUERY(store, start_id) # NoLot
                                THEN start_id
                                ELSE NEXT_LOT_QUERY(store, platform, start_id)
                      ELSE NEXT_LOT_QUERY(store, platform, start_id)

\* EveryLot.mark_as_posted: UPDATE lots SET posted_<platform> = ? WHERE id = ?
mark_as_posted(store, lot, platform, post_id) ==
    [k \in DOMAIN store |->
        IF k = lot
        THEN IF platform = "bluesky"
             THEN [store[k] EXCEPT !.posted_bluesky = post_id]
             ELSE [store[k] EXCEPT !.posted_twitter = post_id]
        ELSE store[k]]

\* names EveryLot defines; el.<name> for any other name raises AttributeError
EveryLotMethods ==
    {"aim_camera", "get_streetview_image", "streetviewable_location",
     "sanitize_address", "compose", "mark_as_posted"}

\* EveryLot.streetviewable_location: what the call yields for the selected row
\* no location string
NoLocation == <<>>

\* f"{address}, CHICAGO, IL"
FormattedAddress(address) == address \o <<",", " ", "CHICAGO", ",", " ", "IL">>

\* f"{lat},{lon}"
LatLon(lat, lon) == <<ToString(lat), ",", ToString(lon)>>

\* variant of streetviewable_location: the sentinel coordinates are returned
\* like any other
streetviewable_location_nosentinel(row) ==
    IF row.address # <<>>
    THEN [raised |-> "none", location |-> FormattedAddress(row.address), geocode_calls |-> 0]
    ELSE [raised |-> "none", location |-> LatLon(row.lat, row.lon), geocode_calls |-> 0]

\* EveryLot.streetviewable_location(key) on the dict row: the exception
\* raised, the string returned, and the number of geocoding requests issued
\* (GCAPI is never requested)
streetviewable_location(row) ==
    IF row.address # <<>>
    THEN [raised |-> "none", location |-> FormattedAddress(row.address), geocode_calls |-> 0]
    ELSE IF row.lat = 0 /\ row.lon = 0
         THEN [raised |-> "ValueError", location |-> NoLocation, geocode_calls |-> 0]
         ELSE [raised |-> "none", location |-> LatLon(row.lat, row.lon), geocode_calls |-> 0]

\* float(x) of a value of the floors entry: its number, or the exception
FloatOf(x) ==
    IF x.kind = "num" THEN [raised |-> "none", n |-> x.n]
    ELSE IF x.kind = "None" THEN [raised |-> "TypeError", n |-> 0]
    ELSE [raised |-> "ValueError", n |-> 0]

\* self.lot.get('floors', 2)
GetFloors(d) == IF d.floors.kind = "missing" THEN [kind |-> "num", n |-> 2] ELSE d.floors

\* EveryLot.aim_camera() on the dict d: (fov, pitch); the if/elif chain in
\* the order of the source, an exception of float() caught before any
\* assignment
aim_camera(d) ==
    LET f == FloatOf(GetFloors(d))
    IN  IF f.raised # "none" THEN <<65, 10>>
        ELSE IF f.n = 3 THEN <<72, 10>>
        ELSE IF f.n = 4 THEN <<76, 15>>
        ELSE IF f.n >= 5 THEN <<81, 20>>
        ELSE IF f.n = 6 THEN <<86, 10>>
        ELSE IF f.n >= 8 THEN <<90, 25>>
        ELSE IF f.n >= 10 THEN <<90, 30>>
        ELSE <<65, 10>>

\* variant of get_streetview_image: the key is not checked
get_streetview_image_nokeycheck(row, key_present, http_ok) ==
    IF streetviewable_location(row).raised = "ValueError" THEN "ValueError"
    ELSE IF http_ok THEN "image" ELSE "RequestException"

\* EveryLot.get_streetview_image: outcome for an API key and an HTTP result
get_streetview_image(row, key_present, http_ok) ==
    IF ~key_present THEN "ValueError"
    ELSE IF streetviewable_location(row).raised = "ValueError" THEN "ValueError"
    ELSE IF http_ok THEN "image" ELSE "RequestException"

(***************************************************************************)
(* bot.py: configuration of an invocation                                  *)
(***************************************************************************)
\* environment and command line of the deployment
Configs ==
    {c \in [ENABLE_BLUESKY : BOOLEAN, ENABLE_TWITTER : BOOLEAN,
            GOOGLE_API_KEY : BOOLEAN, dry_run : BOOLEAN,
            START_PIN10 : StartPins,
            id_given : BOOLEAN, id : {Falsy, MissingKey} \cup Keys] :
        /\ (~c.id_given => c.id = Falsy)
        /\ (c.id_given /\ c.id # Falsy => c.START_PIN10 = Falsy)}

\* parser.add_argument('--id', default=os.getenv('START_PIN10')): args.id
ArgsId(c) == IF c.id_given THEN c.id ELSE c.START_PIN10

\* variant: the check of el.lot is missing
AfterSelect_nocheck(lot) == "fetch_image"

\* if not el.lot: logger.error('No lot found'); return
AfterSelect(lot) == IF lot = NoLot THEN "no_lot" ELSE "fetch_image"

\* variant: the dry-run flag is ignored
EntersPublish_always(c) == TRUE

\* if not args.dry_run: ... the publish block is entered
EntersPublish(c) == ~c.dry_run

\* publishers the run goes through, in the order of the code
Enabled(c, p) == IF p = "bluesky" THEN c.ENABLE_BLUESKY ELSE c.ENABLE_TWITTER

\* f"bsky:{post_id}" / f"twtr:{post_id}"
Tagged(p, post_id) == [tag |-> IF p = "bluesky" THEN "bsky" ELSE "twtr", id |-> post_id]

NoCalls == [p \in Platforms |-> 0]

NoOutcome == [p \in Platforms |-> "none"]

NoPrev == [valid |-> FALSE, lot |-> NoLot, published |-> FALSE]

Terminal == {"done", "no_lot", "not_enabled", "abort"}

(***************************************************************************)
(* data_ingest.py: fetch, de-duplicate, materialise                        *)
(***************************************************************************)

\* largest number of rows of the upstream dataset and of an argument list
MaxRows == 3

\* largest batch size
MaxBatch == 2

RECURSIVE NumVal(_)
\* CAST(s AS INTEGER) of a string of digits
NumVal(s) == IF s = <<>> THEN 0 ELSE NumVal(SubSeq(s, 1, Len(s) - 1)) * 10 + s[Len(s)]

RECURSIVE py_lstrip(_, _)
\* str.lstrip(chars)
py_lstrip(s, chars) ==
    IF s # <<>> /\ s[1] \in chars THEN py_lstrip(Tail(s), chars) ELSE s

RECURSIVE py_rstrip(_, _)
\* str.rstrip(chars)
py_rstrip(s, chars) ==
    IF s # <<>> /\ s[Len(s)] \in chars
    THEN py_rstrip(SubSeq(s, 1, Len(s) - 1), chars)
    ELSE s

\* str.strip(chars)
py_strip(s, chars) == py_rstrip(py_lstrip(s, chars), chars)

\* the characters str.strip() removes
Whitespace == {" "}

\* address columns of the upstream rows: the first of sample_rows, a row
\* with a padded street and no zip code, a row with no address at all
AddressFixtures ==
    << [prop_address_full |-> <<"123 MAIN ST">>, prop_address_city_name |-> <<"CHICAGO">>,
        prop_address_state |-> <<"IL">>, prop_address_zipcode_1 |-> <<"60601">>],
       [prop_address_full |-> <<"125 MAIN ST", " ">>, prop_address_city_name |-> <<"CHICAGO">>,
        prop_address_state |-> <<"IL">>, prop_address_zipcode_1 |-> <<>>],
       [prop_address_full |-> <<>>, prop_address_city_name |-> <<>>,
        prop_address_state |-> <<>>, prop_address_zipcode_1 |-> <<>>] >>

\* a row of the upstream dataset: pin is pin10 followed by further digits
UpstreamRow(k, i) ==
    [pin |-> k \o <<i>>, pin10 |-> k,
     prop_address_full |-> AddressFixtures[i].prop_address_full,
     prop_address_city_name |-> AddressFixtures[i].prop_address_city_name,
     prop_address_state |-> AddressFixtures[i].prop_address_state,
     prop_address_zipcode_1 |-> AddressFixtures[i].prop_address_zipcode_1]

RowPool == {UpstreamRow(k, i) : k \in Keys, i \in 1..Len(AddressFixtures)}

\* lists of rows a function can be called with
RowLists == UNION {[1..n -> RowPool] : n \in 0..MaxRows}

\* what the query returns over all pages: ORDER BY pin ASC, no pin twice
Datasets ==
    {d \in RowLists : \A i \in 1..Len(d) - 1 : TextLess(d[i].pin, d[i + 1].pin)}

\* LIMIT batch_size OFFSET offset over the dataset
Page(dataset, off, batch_size) ==
    SubSeq(dataset, off + 1,
           IF off + batch_size < Len(dataset) THEN off + batch_size ELSE Len(dataset))

\* r.raise_for_status() raises
raise_for_status_never(http_ok) == FALSE

raise_for_status(http_ok) == ~http_ok

\* if len(batch) < batch_size: break
LastPage_le(batch, batch_size) == Len(batch) <= batch_size

LastPage(batch, batch_size) == Len(batch) < batch_size

RECURSIVE transform_rows_to_unique_pin10_last(_)
\* variant of transform_rows_to_unique_pin10: a later row of a pin10 replaces
\* the earlier one
transform_rows_to_unique_pin10_last(rs) ==
    IF rs = <<>> THEN <<>>
    ELSE IF \E j \in 2..Len(rs) : rs[j].pin10 = rs[1].pin10
         THEN transform_rows_to_unique_pin10_last(Tail(rs))
         ELSE <<rs[1]>> \o transform_rows_to_unique_pin10_last(Tail(rs))

RECURSIVE UniqueFrom(_, _, _)
\* the for loop of transform_rows_to_unique_pin10 over the rest of the rows
UniqueFrom(rs, seen_pin10, unique_records) ==
    IF rs = <<>> THEN unique_records
    ELSE IF rs[1].pin10 \notin seen_pin10
         THEN UniqueFrom(Tail(rs), seen_pin10 \cup {rs[1].pin10}, Append(unique_records, rs[1]))
         ELSE UniqueFrom(Tail(rs), seen_pin10, unique_records)

transform_rows_to_unique_pin10(rs) == UniqueFrom(rs, {}, <<>>)

\* final_address of a row
FinalAddress(row) ==
    py_strip(py_strip(row.prop_address_full, Whitespace) \o <<",", " ">>
             \o py_strip(row.prop_address_city_name, Whitespace) \o <<",", " ">>
             \o py_strip(row.prop_address_state, Whitespace) \o <<" ">>
             \o py_strip(row.prop_address_zipcode_1, Whitespace),
             {",", " "})

\* the row INSERT INTO lots (id, address, lat, lon) makes of a record
InsertedRow(row) ==
    [id |-> row.pin10, address |-> FinalAddress(row), lat |-> 0, lon |-> 0,
     posted_twitter |-> "0", posted_bluesky |-> "0"]

\* WHERE CAST(id AS INTEGER) <= CAST(? AS INTEGER)
BackfillMatches_text(id, start_pin) == id = start_pin \/ TextLess(id, start_pin)

BackfillMatches(id, start_pin) == NumVal(id) <= NumVal(start_pin)

\* UPDATE lots SET posted_bluesky = '1' WHERE ..., run if start_pin:
Backfilled(table, start_pin) ==
    [k \in DOMAIN table |->
        IF start_pin # Falsy /\ BackfillMatches(k, start_pin)
        THEN [table[k] EXCEPT !.posted_bluesky = "1"]
        ELSE table[k]]

\* the lots table with no row
EmptyTable == [k \in {} |-> k]

\* variant of create_local_db: CREATE TABLE IF NOT EXISTS without the DROP,
\* INSERT OR IGNORE
create_local_db_keep(recs, table, start_pin) ==
    LET new == {recs[i].pin10 : i \in 1..Len(recs)} \ DOMAIN table
        first(k) == CHOOSE i \in 1..Len(recs) :
                       /\ recs[i].pin10 = k
                       /\ \A j \in 1..(i - 1) : recs[j].pin10 # k
    IN  [raised |-> "none",
         table |-> Backfilled([k \in DOMAIN table \cup new |->
                                 IF k \in DOMAIN table
                                 THEN [id |-> k, address |-> table[k].address,
                                       lat |-> table[k].lat, lon |-> table[k].lon,
                                       posted_twitter |-> table[k].posted_twitter,
                                       posted_bluesky |-> table[k].posted_bluesky]
                                 ELSE InsertedRow(recs[first(k)])],
                              start_pin)]

\* create_local_db(records, db_path) on a database holding table, with
\* START_PIN10 = start_pin in the environment: the table that results and the
\* exception raised.  DROP TABLE and CREATE TABLE take effect at once; the
\* INSERTs and the UPDATE are one transaction, which a second INSERT of an id
\* (PRIMARY KEY) ends with IntegrityError before conn.commit()
create_local_db(recs, table, start_pin) ==
    LET ids == {recs[i].pin10 : i \in 1..Len(recs)}
        row(k) == InsertedRow(recs[CHOOSE i \in 1..Len(recs) : recs[i].pin10 = k])
    IN  IF \E i, j \in 1..Len(recs) : i # j /\ recs[i].pin10 = recs[j].pin10
        THEN [raised |-> "IntegrityError", table |-> EmptyTable]
        ELSE [raised |-> "none",
              table |-> Backfilled([k \in ids |-> row(k)], start_pin)]

\* largest number of invocations followed when the posts are recorded
MaxRuns == 3

\* what an observer of the platforms has recorded: whether it records at all,
\* the number of posts that exist on platform p for record k, the number of
\* invocations that have ended, whether every invocation so far published
\* its record on every platform it tried, and whether one was killed
NoHist ==
    [on |-> FALSE, posts |-> [k \in Keys |-> [p \in Platforms |-> 0]],
     runs |-> 0, ok |-> TRUE, killed |-> FALSE]

\* poster.post returned: a post for record k exists on platform p
HistPost(h, k, p) == IF h.on THEN [h EXCEPT !.posts[k][p] = @ + 1] ELSE h

\* an exception was raised: nothing was posted
HistFail(h) == IF h.on THEN [h EXCEPT !.ok = FALSE] ELSE h

\* the process was killed
HistKill(h) == IF h.on THEN [h EXCEPT !.ok = FALSE, !.killed = TRUE] ELSE h

\* the process ended
HistRun(h) == IF h.on THEN [h EXCEPT !.runs = @ + 1] ELSE h

\* no method of an EveryLot object is called on its own
LotIdle ==
    /\ self_lot = NoLot
    /\ geo = <<>>
    /\ camera = <<>>
    /\ mpc = "idle"

\* no publisher is called on its own
PosterIdle ==
    /\ ppc = "idle"
    /\ pargs = <<>>
    /\ uploads = 0
    /\ creates = 0
    /\ praised = <<>>
    /\ preturn = "none"

\* nothing located yet, the platforms unobserved
Unobserved ==
    /\ location = NoLocation
    /\ geocode_calls = 0
    /\ hist = NoHist

\* data_ingest.py is not running
IngestIdle ==
    /\ icfg = [token |-> TRUE, START_PIN10 |-> Falsy, batch_size |-> 1, entry |-> "none"]
    /\ upstream = <<>>
    /\ ipc = "idle"
    /\ offset = 0
    /\ all_rows = <<>>
    /\ requests = <<>>
    /\ rows = <<>>
    /\ records = <<>>
    /\ ierr = "none"

(***************************************************************************)
(* bot.main, one invocation after another on the same store                *)
(***************************************************************************)
Init ==
    /\ \E m \in Stores : lots \in {MakeStore(m), Unlocated(MakeStore(m))}
    /\ db0 = lots
    /\ cfg \in Configs
    /\ pc = "start"
    /\ el_id = Falsy
    /\ el_lot = NoLot
    /\ image = "none"
    /\ post_ids = <<>>
    /\ calls = NoCalls
    /\ outcome = NoOutcome
    /\ err = "none"
    /\ prev = NoPrev
    /\ Unobserved
    /\ IngestIdle
    /\ LotIdle
    /\ PosterIdle

\* el = EveryLot(args.database, ..., id_=args.id); if not el.lot: return
Select ==
    /\ pc = "start"
    /\ el_id' = ArgsId(cfg)
    /\ el_lot' = EveryLotInit(lots, ArgsId(cfg), cfg)
    /\ pc' = AfterSelect(el_lot')
    /\ UNCHANGED <<lots, db0, cfg, image, post_ids, calls, outcome, err, prev>>
    /\ UNCHANGED ivars
    /\ UNCHANGED <<location, geocode_calls, hist>>
    /\ UNCHANGED xvars

\* image = el.get_streetview_image(google_key); an exception leaves main
\* (image is "failed" when the request was issued and failed, and stays "none"
\* when get_streetview_image raised before requests.get)
FetchImage ==
    /\ pc = "fetch_image"
    /\ \E http_ok \in BOOLEAN :
          LET r == get_streetview_image(lots[el_lot], cfg.GOOGLE_API_KEY, http_ok)
          IN  IF r = "image"
              THEN image' = "image" /\ pc' = "check_enabled" /\ err' = err /\ hist' = hist
              ELSE /\ image' = IF r = "RequestException" THEN "failed" ELSE image
                   /\ pc' = "abort"
                   /\ err' = r
                   /\ hist' = HistFail(hist)
    /\ location' = IF cfg.GOOGLE_API_KEY
                   THEN streetviewable_location(lots[el_lot]).location
                   ELSE location
    /\ UNCHANGED <<lots, db0, cfg, el_id, el_lot, post_ids, calls, outcome, prev>>
    /\ UNCHANGED ivars
    /\ UNCHANGED geocode_calls
    /\ UNCHANGED xvars

\* if not (enable_bluesky or enable_twitter): return; compose; if not args.dry_run
CheckEnabled ==
    /\ pc = "check_enabled"
    /\ pc' = IF ~(cfg.ENABLE_BLUESKY \/ cfg.ENABLE_TWITTER) THEN "not_enabled"
             ELSE IF EntersPublish(cfg) THEN "publish_bluesky"
             ELSE "done"
    /\ UNCHANGED <<lots, db0, cfg, el_id, el_lot, image, post_ids, calls, outcome, err, prev>>
    /\ UNCHANGED ivars
    /\ UNCHANGED <<location, geocode_calls, hist>>
    /\ UNCHANGED xvars

\* variant of Publish: the enable flag is not consulted
Publish_noflag(p, next_pc) ==
    \/ /\ outcome' = [outcome EXCEPT ![p] = "ctor_failed"]
       /\ pc' = next_pc
       /\ hist' = HistFail(hist)
       /\ UNCHANGED <<post_ids, calls>>
    \/ /\ outcome' = [outcome EXCEPT ![p] = "post_failed"]
       /\ calls' = [calls EXCEPT ![p] = @ + 1]
       /\ pc' = next_pc
       /\ hist' = HistFail(hist)
       /\ UNCHANGED post_ids
    \/ \E post_id \in PostIdsOf(p) :
       /\ outcome' = [outcome EXCEPT ![p] = post_id]
       /\ calls' = [calls EXCEPT ![p] = @ + 1]
       /\ post_ids' = Append(post_ids, Tagged(p, post_id))
       /\ pc' = next_pc
       /\ hist' = HistPost(hist, el_lot, p)

\* try: poster = Poster(); post_id = poster.post(...); post_ids.append(...)
\* except Exception: logged
Publish(p, next_pc) ==
    IF ~Enabled(cfg, p)
    THEN /\ pc' = next_pc
         /\ UNCHANGED <<post_ids, calls, outcome, hist>>
    ELSE \/ /\ outcome' = [outcome EXCEPT ![p] = "ctor_failed"]
            /\ pc' = next_pc
            /\ hist' = HistFail(hist)
            /\ UNCHANGED <<post_ids, calls>>
         \/ /\ outcome' = [outcome EXCEPT ![p] = "post_failed"]
            /\ calls' = [calls EXCEPT ![p] = @ + 1]
            /\ pc' = next_pc
            /\ hist' = HistFail(hist)
            /\ UNCHANGED post_ids
         \/ \E post_id \in PostIdsOf(p) :
            /\ outcome' = [outcome EXCEPT ![p] = post_id]
            /\ calls' = [calls EXCEPT ![p] = @ + 1]
            /\ post_ids' = Append(post_ids, Tagged(p, post_id))
            /\ pc' = next_pc
            /\ hist' = HistPost(hist, el_lot, p)

PublishBluesky ==
    /\ pc = "publish_bluesky"
    /\ Publish("bluesky", "publish_twitter")
    /\ UNCHANGED <<lots, db0, cfg, el_id, el_lot, image, err, prev>>
    /\ UNCHANGED ivars
    /\ UNCHANGED <<location, geocode_calls>>
    /\ UNCHANGED xvars

PublishTwitter ==
    /\ pc = "publish_twitter"
    /\ Publish("twitter", "record_update")
    /\ UNCHANGED <<lots, db0, cfg, el_id, el_lot, image, err, prev>>
    /\ UNCHANGED ivars
    /\ UNCHANGED <<location, geocode_calls>>
    /\ UNCHANGED xvars

\* variant of RecordUpdate: the update step calls el.mark_as_posted for each
\* platform that returned a post id
RecordUpdate_marks ==
    /\ pc = "record_update"
    /\ lots' = [k \in DOMAIN lots |->
                   IF k = el_lot
                   THEN [lots[k] EXCEPT
                           !.posted_bluesky = IF outcome["bluesky"] \in PostIds
                                              THEN outcome["bluesky"] ELSE @,
                           !.posted_twitter = IF outcome["twitter"] \in PostIds
                                              THEN outcome["twitter"] ELSE @]
                   ELSE lots[k]]
    /\ pc' = "done"
    /\ UNCHANGED <<db0, cfg, el_id, el_lot, image, post_ids, calls, outcome, err, prev>>
    /\ UNCHANGED ivars
    /\ UNCHANGED <<location, geocode_calls, hist>>
    /\ UNCHANGED xvars

\* variant of RecordUpdate: the update statement has no WHERE id = ? clause
RecordUpdate_allrows ==
    /\ pc = "record_update"
    /\ lots' = [k \in DOMAIN lots |->
                   [lots[k] EXCEPT
                      !.posted_bluesky = IF outcome["bluesky"] \in PostIds
                                         THEN outcome["bluesky"] ELSE @,
                      !.posted_twitter = IF outcome["twitter"] \in PostIds
                                         THEN outcome["twitter"] ELSE @]]
    /\ pc' = "done"
    /\ UNCHANGED <<db0, cfg, el_id, el_lot, image, post_ids, calls, outcome, err, prev>>
    /\ UNCHANGED ivars
    /\ UNCHANGED <<location, geocode_calls, hist>>
    /\ UNCHANGED xvars

\* if post_ids: el.mark_as_tweeted(','.join(post_ids))
\* EveryLot has no attribute mark_as_tweeted: the call raises AttributeError
RecordUpdate ==
    /\ pc = "record_update"
    /\ IF post_ids # <<>>
       THEN IF "mark_as_tweeted" \in EveryLotMethods
            THEN pc' = "done" /\ err' = err
            ELSE pc' = "abort" /\ err' = "AttributeError"
       ELSE pc' = "done" /\ err' = err
    /\ UNCHANGED <<lots, db0, cfg, el_id, el_lot, image, post_ids, calls, outcome, prev>>
    /\ UNCHANGED ivars
    /\ UNCHANGED <<location, geocode_calls, hist>>
    /\ UNCHANGED xvars

\* the process is killed between two steps of main
Kill ==
    /\ pc \notin Terminal \cup {"start", "killed", "ingest", "idle"}
    /\ pc' = "killed"
    /\ hist' = HistKill(hist)
    /\ UNCHANGED <<lots, db0, cfg, el_id, el_lot, image, post_ids, calls, outcome, err, prev>>
    /\ UNCHANGED ivars
    /\ UNCHANGED <<location, geocode_calls>>
    /\ UNCHANGED xvars

\* the process ends; the external scheduler starts the next invocation
NextRun ==
    /\ pc \in Terminal \cup {"killed"}
    /\ hist.on => hist.runs + 1 < MaxRuns
    /\ hist' = HistRun(hist)
    /\ location' = NoLocation
    /\ prev' = [valid |-> TRUE, lot |-> el_lot, published |-> post_ids # <<>>]
    /\ pc' = "start"
    /\ db0' = lots
    /\ el_id' = Falsy
    /\ el_lot' = NoLot
    /\ image' = "none"
    /\ post_ids' = <<>>
    /\ calls' = NoCalls
    /\ outcome' = NoOutcome
    /\ err' = "none"
    /\ UNCHANGED <<lots, cfg>>
    /\ UNCHANGED ivars
    /\ UNCHANGED geocode_calls
    /\ UNCHANGED xvars

Next ==
    \/ Select
    \/ FetchImage
    \/ CheckEnabled
    \/ PublishBluesky
    \/ PublishTwitter
    \/ RecordUpdate
    \/ NextRun

Spec == Init /\ [][Next]_vars

(***************************************************************************)
(* EveryLot used as an object: construction and mark_as_posted             *)
(***************************************************************************)
\* environments that differ in what EveryLot.__init__ reads
ApiConfigs ==
    {c \in Configs : c.ENABLE_TWITTER /\ c.GOOGLE_API_KEY /\ ~c.dry_run /\ ~c.id_given}

ApiPcs == {"api", "api_new", "api_marked"}

InitApi ==
    /\ \E m \in Stores : lots = MakeStore(m)
    /\ db0 = lots
    /\ cfg \in ApiConfigs
    /\ pc = "api"
    /\ el_id = Falsy
    /\ el_lot = NoLot
    /\ image = "none"
    /\ post_ids = <<>>
    /\ calls = NoCalls
    /\ outcome = NoOutcome
    /\ err = "none"
    /\ prev = NoPrev
    /\ Unobserved
    /\ IngestIdle
    /\ LotIdle
    /\ PosterIdle

\* el = EveryLot(database, id_=id_arg)
ApiNew ==
    /\ pc \in ApiPcs
    /\ \E id_arg \in {Falsy, MissingKey} \cup Keys :
          /\ el_id' = id_arg
          /\ el_lot' = EveryLotInit(lots, id_arg, cfg)
    /\ pc' = "api_new"
    /\ UNCHANGED <<lots, db0, cfg, image, post_ids, calls, outcome, err, prev>>
    /\ UNCHANGED ivars
    /\ UNCHANGED <<location, geocode_calls, hist>>
    /\ UNCHANGED xvars

\* el.mark_as_posted(platform, post_id) on an object that holds a lot
ApiMark ==
    /\ pc \in ApiPcs
    /\ el_lot # NoLot
    /\ \E p \in Platforms : \E post_id \in PostIdsOf(p) :
          lots' = mark_as_posted(lots, el_lot, p, post_id)
    /\ db0' = lots'
    /\ pc' = "api_marked"
    /\ UNCHANGED <<cfg, el_id, el_lot, image, post_ids, calls, outcome, err, prev>>
    /\ UNCHANGED ivars
    /\ UNCHANGED <<location, geocode_calls, hist>>
    /\ UNCHANGED xvars

NextApi ==
    \/ ApiNew
    \/ ApiMark

SpecApi == InitApi /\ [][NextApi]_vars

(***************************************************************************)
(* data_ingest.main, and direct calls of its functions as the tests make   *)
(***************************************************************************)

\* START_PIN10 in the environment of an ingestion
IngestStartPins == StartPins \cup {<<2>>}

\* environment and call of an ingestion: entry is the function called
IngestConfigs ==
    {c \in [entry : {"main", "transform_rows_to_unique_pin10", "create_local_db"},
            token : BOOLEAN, START_PIN10 : IngestStartPins, batch_size : 1..MaxBatch] :
        c.entry # "main" => c.token /\ c.batch_size = 1}

\* the database before the ingestion: no row, or a row for every key with
\* both markers set
IngestStores ==
    {MakeStore(m) : m \in {n \in Stores :
        /\ DOMAIN n \in {{}, Keys}
        /\ \A k \in DOMAIN n : n[k] = <<"1", "1">>}}

\* the bot is not running
BotIdle ==
    /\ cfg = [ENABLE_BLUESKY |-> TRUE, ENABLE_TWITTER |-> FALSE, GOOGLE_API_KEY |-> TRUE,
              dry_run |-> FALSE, START_PIN10 |-> Falsy, id_given |-> FALSE, id |-> Falsy]
    /\ pc = "ingest"
    /\ el_id = Falsy
    /\ el_lot = NoLot
    /\ image = "none"
    /\ post_ids = <<>>
    /\ calls = NoCalls
    /\ outcome = NoOutcome
    /\ err = "none"
    /\ prev = NoPrev
    /\ Unobserved

bvars == <<db0, cfg, pc, el_id, el_lot, image, post_ids, calls, outcome, err, prev,
           location, geocode_calls, hist>>

InitIngest ==
    /\ lots \in IngestStores
    /\ db0 = lots
    /\ BotIdle
    /\ LotIdle
    /\ PosterIdle
    /\ icfg \in IngestConfigs
    /\ offset = 0
    /\ all_rows = <<>>
    /\ requests = <<>>
    /\ ierr = "none"
    /\ \/ /\ icfg.entry = "main"
          /\ upstream \in Datasets
          /\ ipc = "ing_start"
          /\ rows = <<>>
          /\ records = <<>>
       \/ /\ icfg.entry = "transform_rows_to_unique_pin10"
          /\ upstream = <<>>
          /\ ipc = "ing_transform"
          /\ rows \in RowLists
          /\ records = <<>>
       \/ /\ icfg.entry = "create_local_db"
          /\ upstream = <<>>
          /\ ipc = "ing_create"
          /\ rows = <<>>
          /\ records \in RowLists

\* token = os.getenv("CHICAGO_DATA_PORTAL_TOKEN"); if not token: raise ValueError
IngStart ==
    /\ ipc = "ing_start"
    /\ IF ~icfg.token
       THEN ipc' = "ing_failed" /\ ierr' = "ValueError"
       ELSE ipc' = "ing_fetch" /\ ierr' = ierr
    /\ UNCHANGED <<lots, icfg, upstream, offset, all_rows, requests, rows, records>>
    /\ UNCHANGED bvars
    /\ UNCHANGED xvars

\* one iteration of while True: request a page, raise_for_status, parse,
\* extend, advance; the function returns all_rows when the loop is left and
\* main's except ends the process when it raises; requests lists the offset
\* of every request issued and whether its status was a success; the body
\* of a response that is not a success holds no row
IngFetchPage ==
    /\ ipc = "ing_fetch"
    /\ \E http_ok \in BOOLEAN :
        /\ requests' = Append(requests, [offset |-> offset, ok |-> http_ok])
        /\ IF raise_for_status(http_ok)
            THEN /\ ipc' = "ing_failed"
                 /\ ierr' = "HTTPError"
                 /\ UNCHANGED <<offset, all_rows, rows>>
            ELSE LET batch == IF http_ok
                              THEN Page(upstream, offset, icfg.batch_size)
                              ELSE <<>>
                 IN  /\ ierr' = ierr
                     /\ IF batch = <<>>
                        THEN /\ rows' = all_rows
                             /\ ipc' = "ing_transform"
                             /\ UNCHANGED <<offset, all_rows>>
                        ELSE /\ all_rows' = all_rows \o batch
                             /\ offset' = offset + icfg.batch_size
                             /\ IF LastPage(batch, icfg.batch_size)
                                THEN rows' = all_rows' /\ ipc' = "ing_transform"
                                ELSE rows' = rows /\ ipc' = ipc
    /\ UNCHANGED <<lots, icfg, upstream, records>>
    /\ UNCHANGED bvars
    /\ UNCHANGED xvars

\* unique_records = transform_rows_to_unique_pin10(rows)
IngTransform ==
    /\ ipc = "ing_transform"
    /\ records' = transform_rows_to_unique_pin10(rows)
    /\ ipc' = "ing_create"
    /\ UNCHANGED <<lots, icfg, upstream, offset, all_rows, requests, rows, ierr>>
    /\ UNCHANGED bvars
    /\ UNCHANGED xvars

\* create_local_db(unique_records, args.db)
IngCreate ==
    /\ ipc = "ing_create"
    /\ LET r == create_local_db(records, lots, icfg.START_PIN10)
       IN  /\ lots' = r.table
           /\ ierr' = r.raised
           /\ ipc' = IF r.raised = "none" THEN "ing_done" ELSE "ing_failed"
    /\ UNCHANGED <<icfg, upstream, offset, all_rows, requests, rows, records>>
    /\ UNCHANGED bvars
    /\ UNCHANGED xvars

NextIngest ==
    \/ IngStart
    \/ IngFetchPage
    \/ IngTransform
    \/ IngCreate

SpecIngest == InitIngest /\ [][NextIngest]_vars

(***************************************************************************)
(* Sequential runs of the bot with no explicit id, the posts that exist on *)
(* the platforms recorded, a run possibly killed between two steps         *)
(***************************************************************************)

\* python -m everylot.bot with no --id and no START_PIN10, an API key, no
\* --dry-run
SequentialConfigs ==
    {c \in Configs : ~c.id_given /\ c.START_PIN10 = Falsy /\ c.GOOGLE_API_KEY /\ ~c.dry_run}

InitH ==
    /\ \E m \in Stores : lots = MakeStore(m)
    /\ db0 = lots
    /\ cfg \in SequentialConfigs
    /\ pc = "start"
    /\ el_id = Falsy
    /\ el_lot = NoLot
    /\ image = "none"
    /\ post_ids = <<>>
    /\ calls = NoCalls
    /\ outcome = NoOutcome
    /\ err = "none"
    /\ prev = NoPrev
    /\ location = NoLocation
    /\ geocode_calls = 0
    /\ hist = [NoHist EXCEPT !.on = TRUE]
    /\ IngestIdle
    /\ LotIdle
    /\ PosterIdle

NextH ==
    \/ Select
    \/ FetchImage
    \/ CheckEnabled
    \/ PublishBluesky
    \/ PublishTwitter
    \/ RecordUpdate
    \/ NextRun
    \/ Kill

SpecH == InitH /\ [][NextH]_vars

(***************************************************************************)
(* Methods of an EveryLot object called on their own, as test_everylot.py  *)
(* calls them                                                              *)
(***************************************************************************)

\* values of the floors entry of el.lot: the numbers of test_aim_camera and
\* their neighbours, None, a string that is no number, no entry
FloorValues ==
    {[kind |-> "num", n |-> n] : n \in {1, 2, 3, 4, 5, 6, 7, 8, 9, 10, 12}}
        \cup {[kind |-> "None"], [kind |-> "text"], [kind |-> "missing"]}

\* el.lot: coordinates in units of 0.0001 degree, (0, 0) the sentinel
LotDicts ==
    [address : {<<>>, <<"123 Main St">>},
     lat : {0, 418781}, lon : {0, -876298},
     floors : FloorValues]

\* what the geocoding service would answer for the address: no result, or a
\* point (the two of the tests, and points on and around the edges of the
\* box of 0.007 degree around the stored point)
GeoResults ==
    {<<>>} \cup
    {<<418781 + dlat, -876298 + dlng>> : dlat \in {-71, -70, 0, 70, 71}, dlng \in {-71, -70, 0, 70, 71}}
        \cup {<<420000, -880000>>}

InitLot ==
    /\ lots = EmptyTable
    /\ db0 = lots
    /\ BotIdle
    /\ IngestIdle
    /\ PosterIdle
    /\ self_lot \in LotDicts
    /\ geo \in GeoResults
    /\ camera = <<>>
    /\ mpc = "lot"

\* el.streetviewable_location(key)
CallLocation ==
    /\ mpc = "lot"
    /\ LET r == streetviewable_location(self_lot)
       IN  /\ location' = r.location
           /\ geocode_calls' = r.geocode_calls
           /\ mpc' = IF r.raised = "none" THEN "location_returned" ELSE "location_raised"
    /\ UNCHANGED <<lots, db0, cfg, pc, el_id, el_lot, image, post_ids, calls, outcome, err, prev, hist>>
    /\ UNCHANGED <<self_lot, geo, camera>>
    /\ UNCHANGED <<ivars, pvars>>

\* el.aim_camera()
CallAim ==
    /\ mpc = "lot"
    /\ camera' = aim_camera(self_lot)
    /\ mpc' = "aim_returned"
    /\ UNCHANGED <<lots, db0, cfg, pc, el_id, el_lot, image, post_ids, calls, outcome, err, prev, hist>>
    /\ UNCHANGED <<location, geocode_calls, self_lot, geo>>
    /\ UNCHANGED <<ivars, pvars>>

NextLot ==
    \/ CallLocation
    \/ CallAim

SpecLot == InitLot /\ [][NextLot]_vars

(***************************************************************************)
(* twitter.py, bluesky.py: post() of a constructed publisher               *)
(***************************************************************************)

\* image_data: None, empty bytes, the bytes of an image
ImageArgs == {"None", "empty", "bytes"}

\* if image_data:
Truthy(image_data) == image_data = "bytes"

StatusTexts == {"Test tweet", "Test post", "Test post with image"}

\* arguments of TwitterPoster.post and of BlueskyPoster.post
PostArgs ==
    [platform : {"twitter"}, status_text : StatusTexts, image_data : ImageArgs, latlon : BOOLEAN]
        \cup [platform : {"bluesky"}, status_text : StatusTexts, image_data : ImageArgs,
              latlon : {FALSE}]

\* tweet.id as the API returns it, a number
TweetIdNumbers == {12345, 67890}

\* identifiers the platform can answer the create call with, as post() returns
\* them: str(tweet.id), resp["uri"]
ReturnedIds(platform) ==
    IF platform = "twitter" THEN {ToString(n) : n \in TweetIdNumbers} ELSE PostIdsOf("bluesky")

\* the exception the mocked upstream call raises, as the pieces of its message
UploadError == <<"Upload failed">>

CreateError(platform) == IF platform = "twitter" THEN <<"Update failed">> ELSE <<"Post failed">>

InitPost ==
    /\ lots = EmptyTable
    /\ db0 = lots
    /\ BotIdle
    /\ IngestIdle
    /\ LotIdle
    /\ pargs \in PostArgs
    /\ ppc = "called"
    /\ uploads = 0
    /\ creates = 0
    /\ praised = <<>>
    /\ preturn = "none"

\* if image_data: media_upload / upload_blob; the except clause re-raises
\* whatever the call raised
PostUpload ==
    /\ ppc = "called"
    /\ IF Truthy(pargs.image_data)
       THEN \E ok \in BOOLEAN :
               IF ok
               THEN uploads' = uploads + 1 /\ ppc' = "create" /\ praised' = praised
               ELSE uploads' = uploads /\ ppc' = "raised" /\ praised' = UploadError
       ELSE uploads' = uploads /\ ppc' = "create" /\ praised' = praised
    /\ UNCHANGED <<pargs, creates, preturn>>
    /\ UNCHANGED <<lots, db0, cfg, pc, el_id, el_lot, image, post_ids, calls, outcome, err, prev>>
    /\ UNCHANGED <<location, geocode_calls, hist>>
    /\ UNCHANGED <<ivars, lvars>>

\* update_status / create_record, then return the identifier; the except
\* clause re-raises whatever the call raised
PostCreate ==
    /\ ppc = "create"
    /\ \E ok \in BOOLEAN : \E post_id \in ReturnedIds(pargs.platform) :
          IF ok
          THEN creates' = creates + 1 /\ preturn' = post_id /\ ppc' = "returned"
               /\ praised' = praised
          ELSE creates' = creates /\ preturn' = preturn /\ ppc' = "raised"
               /\ praised' = CreateError(pargs.platform)
    /\ UNCHANGED <<pargs, uploads>>
    /\ UNCHANGED <<lots, db0, cfg, pc, el_id, el_lot, image, post_ids, calls, outcome, err, prev>>
    /\ UNCHANGED <<location, geocode_calls, hist>>
    /\ UNCHANGED <<ivars, lvars>>

NextPost ==
    \/ PostUpload
    \/ PostCreate

SpecPost == InitPost /\ [][NextPost]_vars

\* the two programs of the repository, each started on its own
InitAll == Init \/ InitIngest

NextAll == Next \/ NextIngest

SpecAll == InitAll /\ [][NextAll]_vars

(***************************************************************************)
(* Properties of the selector and of mark_as_posted (SpecApi)              *)
(***************************************************************************)

\* the state right after a construction of EveryLot without an explicit id
SelectedNoId == pc = "api_new" /\ el_id = Falsy

\* the state right after a construction of EveryLot with an explicit id
SelectedById == pc = "api_new" /\ el_id # Falsy

\* C1: selection monotonicity. Once the posted_<p> column of record k holds a
\* post identifier (mark_as_posted(p, post_id) with post_id other than '0'),
\* it never returns to '0', and no construction of EveryLot that selects for
\* platform p (no explicit id, p the selection platform) yields k.
C1_SelectionMonotonic ==
    [][\A k \in DOMAIN lots : \A p \in Platforms :
          Posted(lots[k], p) # "0" =>
             /\ Posted(lots'[k], p) # "0"
             /\ (ApiNew /\ el_id' = Falsy /\ SelectionPlatform(cfg) = p) => el_lot' # k]_vars

\* C1 witness: a record was marked with a post identifier on the selection
\* platform and a later selection returned another record.
C1_Witness ==
    /\ SelectedNoId
    /\ el_lot # NoLot
    /\ \E k \in DOMAIN lots :
          /\ Posted(lots[k], SelectionPlatform(cfg)) \in PostIds
          /\ k # el_lot

\* records available on at least one enabled platform
AvailableOnSomeEnabled ==
    {k \in DOMAIN lots :
        \E p \in Platforms : Enabled(cfg, p) /\ Posted(lots[k], p) = "0"}

PublishedOn(p) == {k \in DOMAIN lots : Posted(lots[k], p) # "0"}

\* a key lies above the floor of platform p: strictly greater than every key
\* published on p; when nothing is published on p, at least START_PIN10 if
\* that is set and is not '0', and strictly greater than '0' otherwise
AboveFloor(k, p) ==
    IF PublishedOn(p) # {}
    THEN \A j \in PublishedOn(p) : TextLess(j, k)
    ELSE IF cfg.START_PIN10 \notin {Falsy, <<0>>}
         THEN k = cfg.START_PIN10 \/ TextLess(cfg.START_PIN10, k)
         ELSE TextLess(<<0>>, k)

\* records selection can return for platform p
Candidates(p) ==
    {k \in DOMAIN lots : Posted(lots[k], p) = "0" /\ AboveFloor(k, p)}

C3_WitnessSmallest ==
    /\ SelectedNoId
    /\ el_lot # NoLot
    /\ \E p \in Platforms : Posted(lots[el_lot], p) # "0"
    /\ \E j \in Candidates(SelectionPlatform(cfg)) : TextLess(el_lot, j)

\* C4: selection with an explicit id returns the record whose key equals the
\* id, whatever its markers, and none when no record has that key.
C4_ExplicitId ==
    SelectedById =>
        IF \E k \in DOMAIN lots : k = el_id
        THEN el_lot = el_id
        ELSE el_lot = NoLot

\* C4 witness: an explicit id returned a record published on both platforms,
\* while a record with a smaller key is still available.
C4_Witness ==
    /\ SelectedById
    /\ el_lot = el_id
    /\ \A p \in Platforms : Posted(lots[el_lot], p) # "0"
    /\ \E j \in DOMAIN lots : TextLess(j, el_lot) /\ Posted(lots[j], "bluesky") = "0"

\* C4 witness: an explicit id that no record has returned none from a
\* store that holds available records.
C4_WitnessMissing ==
    /\ SelectedById
    /\ el_lot = NoLot
    /\ \E j \in DOMAIN lots : Posted(lots[j], "bluesky") = "0"

(***************************************************************************)
(* Properties of bot.main (Spec)                                           *)
(***************************************************************************)
\* the invocation has ended
RunEnded == pc \in Terminal

\* platform p's publish block ended with a post identifier
Succeeded(p) == outcome[p] \in PostIds

\* platform p's publish block ended in the except clause
Failed(p) == outcome[p] \in {"ctor_failed", "post_failed"}

\* C2: advancement across runs without an explicit id. If the previous run
\* published on at least one platform, the selection of this run is another
\* record or none; if it published nothing, the selection of this run is the
\* same record.
C2_Advancement ==
    (pc # "start" /\ prev.valid /\ el_id = Falsy) =>
        IF prev.published
        THEN el_lot = NoLot \/ el_lot # prev.lot
        ELSE el_lot = prev.lot

\* C5: with both platforms enabled and both publish calls returning ids T and
\* B, the run ends with posted_twitter = T and posted_bluesky = B on the
\* selected record.
C5_BothMarkersWritten ==
    (RunEnded /\ cfg.ENABLE_BLUESKY /\ cfg.ENABLE_TWITTER
        /\ Succeeded("bluesky") /\ Succeeded("twitter")) =>
        /\ lots[el_lot].posted_twitter = outcome["twitter"]
        /\ lots[el_lot].posted_bluesky = outcome["bluesky"]

\* C6: with both platforms enabled, when the publisher of one platform fails
\* (construction or post), the post call of the other platform is made
\* exactly once in the run and, when it returns an id, the run ends with that
\* id in the other platform's marker.
C6_PartialFailureIsolation ==
    (RunEnded /\ cfg.ENABLE_BLUESKY /\ cfg.ENABLE_TWITTER) =>
        \A p \in Platforms : \A q \in Platforms \ {p} :
            (Failed(p) /\ outcome[q] # "ctor_failed") =>
                /\ calls[q] = 1
                /\ Succeeded(q) => Posted(lots[el_lot], q) = outcome[q]

\* C7: a run that went through the publish blocks ends with the marker of each
\* platform that succeeded equal to the id that platform returned, and the
\* marker of every other platform as it was when the run started.
C7_UpdateWritesSucceeded ==
    (RunEnded /\ el_lot # NoLot /\ ~cfg.dry_run) =>
        \A p \in Platforms :
            IF Succeeded(p)
            THEN Posted(lots[el_lot], p) = outcome[p]
            ELSE Posted(lots[el_lot], p) = Posted(db0[el_lot], p)

\* C8: a run with dry-run enabled makes no post call on any platform and
\* leaves every marker of every record as it was when the run started.
C8_DryRun ==
    cfg.dry_run =>
        /\ \A p \in Platforms : calls[p] = 0 /\ outcome[p] = "none"
        /\ post_ids = <<>>
        /\ DOMAIN lots = DOMAIN db0
        /\ \A k \in DOMAIN lots : \A p \in Platforms :
              Posted(lots[k], p) = Posted(db0[k], p)

\* C8 witness: a dry run selected a record that is available on an enabled
\* platform, fetched the image and ended.
C8_Witness ==
    /\ cfg.dry_run
    /\ pc = "done"
    /\ el_lot # NoLot
    /\ image = "image"
    /\ \E p \in Platforms : Enabled(cfg, p) /\ Posted(lots[el_lot], p) = "0"

\* C9: when the store is empty, or no explicit id is given and no record is
\* available on the selection platform, selection returns none; and a run
\* whose selection returned none is in the no-lot terminal state with no
\* image fetched, no post call, no record update and no exception.
C9_NoLotNoOp ==
    pc # "start" =>
        /\ (DOMAIN lots = {}
               \/ (el_id = Falsy /\ \A k \in DOMAIN lots :
                      Posted(lots[k], IF cfg.ENABLE_BLUESKY THEN "bluesky" ELSE "twitter") # "0"))
             => el_lot = NoLot
        /\ el_lot = NoLot =>
              /\ pc = "no_lot"
              /\ image = "none"
              /\ calls = NoCalls
              /\ post_ids = <<>>
              /\ lots = db0
              /\ err = "none"

\* C9 witness: a run on a store that holds records, none of them available
\* on the selection platform, ended in the no-lot state.
C9_Witness ==
    /\ pc = "no_lot"
    /\ el_id = Falsy
    /\ DOMAIN lots # {}
    /\ \A k \in DOMAIN lots : Posted(lots[k], SelectionPlatform(cfg)) # "0"

\* C9 witness: a run on an empty store ended in the no-lot state.
C9_WitnessEmpty ==
    /\ pc = "no_lot"
    /\ DOMAIN lots = {}

\* C10: when the imagery request fails (non-empty API key), the run still
\* goes through the publish block of every enabled platform, without an
\* image, and does not end with an exception of the fetch.
C10_ImageFailureNonFatal ==
    (RunEnded /\ image = "failed" /\ err = "RequestException" /\ ~cfg.dry_run) =>
        \A p \in Platforms : Enabled(cfg, p) => outcome[p] # "none"

(***************************************************************************)
(* C11 .. C13: what a sequence of bot runs does to the store               *)
(***************************************************************************)

\* C11: over every sequence of bot runs a record's published marker for a
\* platform changes only from '0' to the post id which that platform's
\* publish returned for that record in the same run; a marker that is not
\* '0' is never overwritten (so a marker changes at most once).
C11_MarkerWrittenOnce ==
    [][\A k \in DOMAIN lots : \A p \in Platforms :
          (k \in DOMAIN lots' /\ Posted(lots'[k], p) # Posted(lots[k], p)) =>
              /\ Posted(lots[k], p) = "0"
              /\ k = el_lot
              /\ outcome[p] \in PostIds
              /\ Posted(lots'[k], p) = outcome[p]]_vars

\* C11 witness: a run given the explicit id of a record that is already
\* published on a platform published it there again and ended, and the
\* marker is the one the store held before the run.
C11_Witness ==
    /\ RunEnded
    /\ el_id # Falsy
    /\ el_lot \in DOMAIN lots
    /\ \E p \in Platforms :
          /\ Succeeded(p)
          /\ Posted(db0[el_lot], p) # "0"
          /\ Posted(lots[el_lot], p) = Posted(db0[el_lot], p)

\* a row with its published markers blanked
Unmarked(row) == [row EXCEPT !.posted_twitter = "0", !.posted_bluesky = "0"]

\* C12: at every point of a run the store holds the records it held when
\* the run started (db0), each with the same id, address, lat, lon and
\* floors, and every record other than the selected one has the same
\* published markers.
C12_Frame ==
    /\ DOMAIN lots = DOMAIN db0
    /\ \A k \in DOMAIN lots :
          /\ Unmarked(lots[k]) = Unmarked(db0[k])
          /\ k # el_lot => lots[k] = db0[k]

\* C12 witness: a run on a store of two records or more published its
\* record and went through its update step.
C12_Witness ==
    /\ RunEnded
    /\ post_ids # <<>>
    /\ el_lot \in DOMAIN lots
    /\ \E k \in DOMAIN lots : k # el_lot

\* the enable flag of platform p as the environment sets it
FlagSet(p) ==
    \/ p = "bluesky" /\ cfg.ENABLE_BLUESKY
    \/ p = "twitter" /\ cfg.ENABLE_TWITTER

\* a run that is not a dry run selected a record and ended
LiveRunEnded == RunEnded /\ ~cfg.dry_run /\ el_lot # NoLot

TransformReturned ==
    icfg.entry # "create_local_db" /\ ipc \in {"ing_create", "ing_done"}

\* index of the first row with coarse key k
FirstWith(rs, k) ==
    CHOOSE i \in 1..Len(rs) : rs[i].pin10 = k /\ \A j \in 1..(i - 1) : rs[j].pin10 # k

\* C14: transform_rows_to_unique_pin10 returns exactly one row per pin10 of
\* its input, that row is the first input row with that pin10, whole, and
\* the rows it returns are in the order of the input.
C14_Dedup ==
    TransformReturned =>
        /\ {records[i].pin10 : i \in 1..Len(records)} = {rows[i].pin10 : i \in 1..Len(rows)}
        /\ \A i, j \in 1..Len(records) : i # j => records[i].pin10 # records[j].pin10
        /\ \A i \in 1..Len(records) : records[i] = rows[FirstWith(rows, records[i].pin10)]
        /\ \A i, j \in 1..Len(records) :
              i < j => FirstWith(rows, records[i].pin10) < FirstWith(rows, records[j].pin10)

\* C14 witness: the function returned two rows for three rows of which the
\* first and the last share a pin10 and differ.
C14_Witness ==
    /\ TransformReturned
    /\ Len(rows) = 3
    /\ rows[1].pin10 = rows[3].pin10
    /\ rows[1] # rows[3]
    /\ rows[2].pin10 # rows[1].pin10
    /\ Len(records) = 2

\* fetch_cook_county_rows returned rows to main
FetchReturned ==
    icfg.entry = "main" /\ ipc \in {"ing_transform", "ing_create", "ing_done"}

\* C15: for an upstream dataset of N rows and a batch size B the i-th page
\* request has offset (i-1)*B, the rows collected are a prefix of the
\* dataset, at most N div B + 1 requests are made, and the function returns
\* after exactly N div B + 1 of them (the first page shorter than B, empty
\* when B divides N) with the N upstream rows in upstream order.
C15_Pagination ==
    icfg.entry = "main" =>
        /\ \A i \in 1..Len(requests) : requests[i].offset = (i - 1) * icfg.batch_size
        /\ Len(requests) <= (Len(upstream) \div icfg.batch_size) + 1
        /\ Len(all_rows) <= Len(upstream)
        /\ all_rows = SubSeq(upstream, 1, Len(all_rows))
        /\ FetchReturned =>
              /\ rows = upstream
              /\ Len(requests) = (Len(upstream) \div icfg.batch_size) + 1

\* C15 witness: the function returned a dataset of two full pages or more
\* whose size is a multiple of the batch size.
C15_Witness ==
    /\ FetchReturned
    /\ Len(upstream) >= 2 * icfg.batch_size
    /\ Len(upstream) % icfg.batch_size = 0
    /\ rows = upstream

\* a page request of the run got a status that is not a success
SomePageFailed == \E i \in 1..Len(requests) : ~requests[i].ok

\* C16: when a page request got a status that is not a success the
\* ingestion has failed, main received no rows, no record was made, and the
\* table is the one that existed before the run.
C16_NoPartialIngestion ==
    SomePageFailed =>
        /\ ipc = "ing_failed"
        /\ ierr = "HTTPError"
        /\ rows = <<>>
        /\ records = <<>>
        /\ lots = db0

\* C16 witness: a page request failed after a page of rows had been
\* fetched, on a database that held rows.
C16_Witness ==
    /\ SomePageFailed
    /\ Len(requests) >= 2
    /\ all_rows # <<>>
    /\ DOMAIN db0 # {}

\* C17: an ingestion without the access token has failed with no page
\* request issued and the table untouched; a bot run without the imagery
\* key that selected a record has ended with no imagery request issued, no
\* publish call and no record update.
C17_MissingCredentials ==
    /\ (icfg.entry = "main" /\ ~icfg.token /\ ipc # "ing_start") =>
          /\ ipc = "ing_failed"
          /\ ierr = "ValueError"
          /\ requests = <<>>
          /\ lots = db0
    /\ (/\ ~cfg.GOOGLE_API_KEY
        /\ pc \notin {"start", "fetch_image", "no_lot", "ingest"} \cup ApiPcs) =>
          /\ pc = "abort"
          /\ err = "ValueError"
          /\ image = "none"
          /\ calls = NoCalls
          /\ post_ids = <<>>
          /\ lots = db0

\* C17 witness: a run that was to publish (a platform enabled, no dry run)
\* selected a record and ended for want of the imagery key.
C17_Witness ==
    /\ ~cfg.GOOGLE_API_KEY
    /\ pc = "abort"
    /\ el_lot # NoLot
    /\ ~cfg.dry_run
    /\ cfg.ENABLE_BLUESKY \/ cfg.ENABLE_TWITTER

\* C17 witness, ingestion: the ingestion ended for want of the token on a
\* non-empty upstream dataset.
C17_WitnessIngest ==
    /\ icfg.entry = "main"
    /\ ~icfg.token
    /\ ipc = "ing_failed"
    /\ upstream # <<>>

CreateEnded == ipc = "ing_done" \/ ierr = "IntegrityError"

\* the addresses of the three AddressFixtures, written out
ExpectedAddress ==
    << <<"123 MAIN ST", ",", " ", "CHICAGO", ",", " ", "IL", " ", "60601">>,
       <<"125 MAIN ST", ",", " ", "CHICAGO", ",", " ", "IL">>,
       <<>> >>

\* the row of every record carries the address made of the record's fields
AddressesSynthesized ==
    \A i \in 1..Len(records) :
        /\ records[i].pin10 \in DOMAIN lots
        /\ lots[records[i].pin10].address = ExpectedAddress[records[i].pin[Len(records[i].pin)]]

\* C19: for every list of records create_local_db completes, the
\* table has as many rows as the list has records, and the row of a
\* record's pin10 carries the address synthesized from that record.
C19_RowPerRecord ==
    CreateEnded =>
        /\ ipc = "ing_done"
        /\ Cardinality(DOMAIN lots) = Len(records)
        /\ AddressesSynthesized

\* C20 as stated: after an ingestion with START_PIN10 = S every record whose
\* key is numerically <= S is marked published on every platform, and every
\* record whose key is numerically > S has both markers '0'.
C20_BackfillAllPlatforms ==
    (ipc = "ing_done" /\ icfg.START_PIN10 # Falsy) =>
        \A k \in DOMAIN lots :
            IF NumVal(k) <= NumVal(icfg.START_PIN10)
            THEN \A p \in Platforms : Posted(lots[k], p) # "0"
            ELSE \A p \in Platforms : Posted(lots[k], p) = "0"

\* C20 amended: after an ingestion with START_PIN10 = S every record whose
\* key is numerically <= S has posted_bluesky = '1' and posted_twitter = '0',
\* and every record whose key is numerically > S has both markers '0'.
C20_BackfillBluesky ==
    (ipc = "ing_done" /\ icfg.START_PIN10 # Falsy) =>
        \A k \in DOMAIN lots :
            IF NumVal(k) <= NumVal(icfg.START_PIN10)
            THEN lots[k].posted_bluesky = "1" /\ lots[k].posted_twitter = "0"
            ELSE \A p \in Platforms : Posted(lots[k], p) = "0"

\* C20 witness: an ingestion with START_PIN10 set made a table with a key
\* at or below it and a key above it.
C20_Witness ==
    /\ ipc = "ing_done"
    /\ icfg.START_PIN10 # Falsy
    /\ \E k \in DOMAIN lots : NumVal(k) <= NumVal(icfg.START_PIN10)
    /\ \E k \in DOMAIN lots : NumVal(k) > NumVal(icfg.START_PIN10)

(***************************************************************************)
(* C21 .. C23: location and camera                                         *)
(***************************************************************************)

\* the geocoded point lies in the box of 0.007 degree around the stored one
InBox(d, g) ==
    /\ d.lat - 70 <= g[1] /\ g[1] <= d.lat + 70
    /\ d.lon - 70 <= g[2] /\ g[2] <= d.lon + 70

\* C21: for a record with an address and usable coordinates the resolver
\* geocodes the formatted address and returns it when the geocoded point is
\* in the box (edges included), the stored coordinates as "lat,lon"
\* otherwise; with sentinel coordinates it returns the formatted address
\* without geocoding.
C21_BoundingBox ==
    (mpc = "location_returned" /\ self_lot.address # <<>> /\ geo # <<>>) =>
        IF self_lot.lat = 0 /\ self_lot.lon = 0
        THEN /\ location = self_lot.address \o <<",", " ", "CHICAGO", ",", " ", "IL">>
             /\ geocode_calls = 0
        ELSE /\ geocode_calls = 1
             /\ location = IF InBox(self_lot, geo)
                           THEN self_lot.address \o <<",", " ", "CHICAGO", ",", " ", "IL">>
                           ELSE <<ToString(self_lot.lat), ",", ToString(self_lot.lon)>>

\* the run is past its image step
PastFetch == el_lot # NoLot /\ pc \notin {"start", "fetch_image", "no_lot"}

\* C22: when the selected record has no address, a run with an API key in
\* which the image step has acted used the stored coordinates as "lat,lon"
\* if they are not the sentinel; with the sentinel (0.0, 0.0) the resolver
\* raised, the run ended there with no image, no publish call and the
\* store as it was at the start of the run.
C22_Degradation ==
    (PastFetch /\ cfg.GOOGLE_API_KEY /\ lots[el_lot].address = <<>>) =>
        IF lots[el_lot].lat = 0 /\ lots[el_lot].lon = 0
        THEN /\ pc = "abort"
             /\ err = "ValueError"
             /\ location = <<>>
             /\ image = "none"
             /\ calls = NoCalls
             /\ post_ids = <<>>
             /\ lots = db0
        ELSE location = <<ToString(lots[el_lot].lat), ",", ToString(lots[el_lot].lon)>>

\* a run ended at the resolver's failure on a record with neither address
\* nor coordinates
C22_Witness ==
    /\ PastFetch /\ cfg.GOOGLE_API_KEY
    /\ lots[el_lot].address = <<>> /\ lots[el_lot].lat = 0 /\ lots[el_lot].lon = 0
    /\ pc = "abort" /\ err = "ValueError"

\* result of aim_camera the test table expects for n floors
CameraTable(n) ==
    IF n = 2 THEN <<65, 10>> ELSE IF n = 3 THEN <<72, 10>> ELSE IF n = 4 THEN <<76, 15>>
    ELSE IF n = 5 THEN <<81, 20>> ELSE IF n = 6 THEN <<86, 20>> ELSE IF n = 8 THEN <<90, 25>>
    ELSE <<90, 30>>

\* C23: aim_camera returns the pair of the table for 2, 3, 4, 5, 6, 8 and 10
\* floors, (65, 10) for a missing or non-numeric floor count, and of two
\* floor counts the larger has no smaller field of view and no smaller pitch.
C23_CameraTable ==
    mpc = "aim_returned" =>
        /\ (self_lot.floors.kind = "num" /\ self_lot.floors.n \in {2, 3, 4, 5, 6, 8, 10}) =>
              camera = CameraTable(self_lot.floors.n)
        /\ self_lot.floors.kind # "num" => camera = <<65, 10>>
        /\ \A x \in FloorValues :
              (x.kind = "num" /\ self_lot.floors.kind = "num" /\ x.n <= self_lot.floors.n) =>
                  LET c == aim_camera([self_lot EXCEPT !.floors = x])
                  IN  c[1] <= camera[1] /\ c[2] <= camera[2]

(***************************************************************************)
(* C24, C25, C28, C29: sequential runs and the posts they leave            *)
(***************************************************************************)

\* no process is running: the last one ended or was killed
BetweenRuns == pc \in Terminal \cup {"killed"}

\* C24: in the state a run leaves behind, killed or ended, a record whose
\* marker for a platform is still '0' has no post on that platform.
C24_KillSafe ==
    BetweenRuns =>
        \A k \in DOMAIN lots : \A p \in Platforms :
            Posted(lots[k], p) = "0" => hist.posts[k][p] = 0

\* C25: with one invocation at a time and no run killed or failed, no record
\* has two posts on the same platform.
C25_NoDoubleSequential ==
    hist.ok => \A k \in Keys : \A p \in Platforms : hist.posts[k][p] <= 1

\* C28: over sequential runs that are not killed, in which a publish may
\* succeed or fail, a step never makes a publish call on a platform for a
\* record that already has a post there.
C28_NoRepublish ==
    [][\A p \in Platforms :
          (~hist.killed /\ ~hist'.killed /\ el_lot # NoLot /\ hist.posts[el_lot][p] >= 1) =>
              calls'[p] <= calls[p]]_vars

\* no marker was set when the first run started: a marker other than '0'
\* belongs to a record with a post
AllAvailableAtStart ==
    \A k \in DOMAIN lots : \A p \in Platforms :
        Posted(lots[k], p) # "0" => hist.posts[k][p] >= 1

\* C29: from a store whose records are all available, while every run so
\* far published its record, a run selects a key above the one the run
\* before selected, and the runs after the first N select nothing.
C29_Exhaustion ==
    (hist.ok /\ AllAvailableAtStart /\ pc \notin {"start", "killed"}) =>
        /\ (prev.valid /\ prev.lot # NoLot /\ el_lot # NoLot) => TextLess(prev.lot, el_lot)
        /\ hist.runs >= Cardinality(DOMAIN lots) => el_lot = NoLot

(***************************************************************************)
(* C26, C30: the order of the keys in the selection                        *)
(***************************************************************************)

\* records selection can return for platform p when keys are compared as
\* numbers: available on p and above the floor of p
NumCandidates(p) ==
    {k \in DOMAIN lots :
        /\ Posted(lots[k], p) = "0"
        /\ IF PublishedOn(p) # {}
           THEN \A j \in PublishedOn(p) : NumVal(j) < NumVal(k)
           ELSE IF cfg.START_PIN10 \notin {Falsy, <<0>>}
                THEN NumVal(cfg.START_PIN10) <= NumVal(k)
                ELSE 0 < NumVal(k)}

\* C26: the selector's test against the floor and its ascending order agree
\* with the comparison of the keys as numbers, keys of different lengths
\* included: selection without an explicit id returns the numerically
\* smallest available key that is numerically above the floor.
C26_NumericOrder ==
    SelectedNoId =>
        LET C == NumCandidates(IF cfg.ENABLE_BLUESKY THEN "bluesky" ELSE "twitter")
        IN  IF C = {}
            THEN el_lot = NoLot
            ELSE /\ el_lot \in C
                 /\ \A j \in C : NumVal(el_lot) <= NumVal(j)

PublishFailure(platform) ==
    IF platform = "twitter" THEN "Failed to post to Twitter" ELSE "Failed to post to Bluesky"

\* C27: post() uploads the image only when one is given and before it
\* creates the post; when it returns it has created exactly one post and
\* returns its identifier; when it raises it returns nothing, the error
\* raised names the platform's publish failure, and after a failed upload
\* no post was created.
C27_AllOrNothing ==
    /\ creates >= 1 => uploads = (IF Truthy(pargs.image_data) THEN 1 ELSE 0)
    /\ ppc = "returned" =>
          /\ creates = 1
          /\ preturn \in ReturnedIds(pargs.platform)
          /\ praised = <<>>
    /\ ppc = "raised" =>
          /\ preturn = "none"
          /\ creates = 0
          /\ praised # <<>>
          /\ praised[1] = PublishFailure(pargs.platform)

====
